---- MODULE Spec2Model ----
(***************************************************************************)
(* AlphaCodium code-generation workflow: the GraphState channels with      *)
(* their reducers, the four nodes (generate_code, generate_test_cases,     *)
(* rank_solutions, validate_code), the conditional edge of validate_code   *)
(* (retryRouter and its destination map) and the run started by main().    *)
(*                                                                         *)
(* A run proceeds in supersteps.  The nodes scheduled in a superstep run   *)
(* concurrently; each returns a partial update; when the last of them      *)
(* returns, the updates are merged into the channels through the per-field *)
(* reducers and the successors are scheduled.  An error thrown by a node   *)
(* (a failed completion call) or by the conditional edge (a router value   *)
(* that is no key of the destination map) rejects the run.                 *)
(***************************************************************************)
EXTENDS Naturals, Sequences, FiniteSets, TLC

VARIABLES
    messages,      \* GraphState.messages
    userQuery,     \* GraphState.userQuery
    status,        \* GraphState.status
    generation,    \* GraphState.generation
    bestSolution,  \* GraphState.bestSolution
    iterations,    \* GraphState.iterations
    reflections,   \* GraphState.reflections
    tasks,         \* nodes of the current superstep that have not returned yet
    writes,        \* partial updates returned in the current superstep, in completion order
    phase,         \* "running", "done" (END reached) or "error" (invoke rejected)
    error,         \* what rejected the run, NoError while none
    route,         \* the last call of retryRouter: the state it read, its value, where it led
    verdicts,      \* value of isValid at each validate_code pass so far
    genCount,      \* number of generate_code executions that returned
    testCount,     \* number of generate_test_cases executions that returned
    rankCount,     \* number of rank_solutions executions that returned
    rankPrompt,    \* the solutions embedded in the prompt of the last rank_solutions call
    returned       \* the partial update each node returned last, NULL before its first return

channels == <<messages, userQuery, status, generation, bestSolution, iterations, reflections>>
history  == <<verdicts, genCount, testCount, rankCount, rankPrompt, returned>>
vars     == <<channels, tasks, writes, phase, error, route, history>>

----------------------------------------------------------------------------
(* Bounds of the model *)

\* longest solutions array a completion returns
MaxSolutions == 2
\* longest testCases array a completion returns
MaxTestCases == 2

(* Values *)

\* null / undefined of a channel or of an optional object
NULL == [null |-> TRUE]
\* the graph's end marker
END == "__end__"
\* retry ceiling of retryRouter
MaxIterations == 3

c1 == [code |-> "add_v1", imports |-> "imp_v1", prefix |-> "desc_v1"]
c2 == [code |-> "add_v2", imports |-> "imp_v2", prefix |-> "desc_v2"]
c3 == [code |-> "add_v3", imports |-> "imp_v3", prefix |-> "desc_v3"]
t1 == [testCode |-> "test_v1", prefix |-> "tdesc_v1"]

SeqsUpTo(S, n) == UNION {[1..k -> S] : k \in 0..n}
Range(s) == {s[i] : i \in 1..Len(s)}
IsPrefix(s, t) == Len(s) <= Len(t) /\ \A i \in 1..Len(s) : s[i] = t[i]
Last(s) == s[Len(s)]

(* Structured results the completion service may return for each schema *)

codeGenSchema == [solutions : SeqsUpTo({c1, c2}, MaxSolutions)]
testCaseSchema == [testCases : SeqsUpTo({t1}, MaxTestCases)]
rankSchema == [bestSolution : {c1, c2, c3}]

(* JavaScript helpers *)

\* obj?.key, for a key holding a string
OptString(obj, key) == IF key \in DOMAIN obj THEN obj[key] ELSE "undefined"
\* (obj.key || []), for a key holding an array
OrEmpty(obj, key) == IF key \in DOMAIN obj THEN obj[key] ELSE <<>>
\* truthiness of a string
Truthy(s) == s # "" /\ s # "undefined"
\* JSON.stringify
Stringify(v) == <<"json", v>>
AIMessage(name, content) == [role |-> "ai", name |-> name, content |-> content]
HumanMessage(content) == [role |-> "human", content |-> content]

----------------------------------------------------------------------------
(* GraphState: one reducer per channel *)

\* variant: the update replaces the log
messagesReplace(x, y) == y

messagesReducer(x, y) == x \o y
userQueryReducer(x, y) == y

\* variant: the update is spread over the previous status
statusSpread(x, y) == IF x = NULL THEN y ELSE y @@ x

statusReducer(x, y) == y

\* variant: the update replaces the pool
generationReplace(prev, next) == next

generationReducer(prev, next) ==
    IF prev = NULL THEN next
    ELSE IF next = NULL THEN prev
    ELSE [solutions |-> OrEmpty(prev, "solutions") \o OrEmpty(next, "solutions"),
          testCases |-> OrEmpty(prev, "testCases") \o OrEmpty(next, "testCases")]

bestSolutionReducer(x, y) == y
iterationsReducer(x, y) == x + y
reflectionsReducer(x, y) == x \o y

Reducer(k, x, y) ==
    CASE k = "messages"     -> messagesReducer(x, y)
      [] k = "userQuery"    -> userQueryReducer(x, y)
      [] k = "status"       -> statusReducer(x, y)
      [] k = "generation"   -> generationReducer(x, y)
      [] k = "bestSolution" -> bestSolutionReducer(x, y)
      [] k = "iterations"   -> iterationsReducer(x, y)
      [] k = "reflections"  -> reflectionsReducer(x, y)

\* the state a node or the router reads
State ==
    [messages |-> messages, userQuery |-> userQuery, status |-> status,
     generation |-> generation, bestSolution |-> bestSolution,
     iterations |-> iterations, reflections |-> reflections]

\* one partial update merged into a state
Merge(st, upd) ==
    [k \in DOMAIN st |-> IF k \in DOMAIN upd THEN Reducer(k, st[k], upd[k]) ELSE st[k]]

RECURSIVE ApplyWrites(_, _)
ApplyWrites(st, ws) ==
    IF ws = <<>> THEN st ELSE ApplyWrites(Merge(st, Head(ws).update), Tail(ws))

----------------------------------------------------------------------------
(* The nodes: each maps the state it reads, and what the completion service *)
(* (or the validation) gave it, to a partial update                         *)

\* variant: the update carries no iteration count
generateCodeUncounted(state, result) ==
    [generation |-> [solutions |-> result.solutions],
     iterations |-> 0,
     messages   |-> <<AIMessage("code_generation",
                                Stringify([solutions |-> result.solutions]))>>]

generateCode(state, result) ==
    LET codeGeneration == result.solutions
    IN [generation |-> [solutions |-> codeGeneration],
        iterations |-> 1,
        messages   |-> <<AIMessage("code_generation",
                                   Stringify([solutions |-> codeGeneration]))>>]

\* variant: the update carries an iteration count, as generateCode's does
generateTestCasesCounted(state, result) ==
    [generation |-> [testCases |-> result.testCases],
     iterations |-> 1,
     messages   |-> <<AIMessage("test_case_generation",
                                Stringify([testCases |-> result.testCases]))>>]

generateTestCases(state, result) ==
    LET testCases == result.testCases
    IN [generation |-> [testCases |-> testCases],
        messages   |-> <<AIMessage("test_case_generation",
                                   Stringify([testCases |-> testCases]))>>]

\* JSON.stringify(generation?.solutions), as embedded in the ranking prompt
rankSolutionsPrompt(state) ==
    IF "solutions" \in DOMAIN state.generation
    THEN Stringify(state.generation.solutions)
    ELSE <<"undefined">>

\* variant: the ranker's result is not written to bestSolution
rankSolutionsUnwritten(state, result) == [reflections |-> <<>>]

\* variant: the ranker also logs a message
rankSolutionsLogged(state, result) ==
    [bestSolution |-> result.bestSolution,
     messages     |-> <<AIMessage("rank_solutions",
                                  Stringify([bestSolution |-> result.bestSolution]))>>]

rankSolutions(state, result) == [bestSolution |-> result.bestSolution]

\* variant: the hardcoded value is false
isValidNever == FALSE

\* the value validate_code hardcodes
isValid == TRUE

\* variant: success reports the description in place of the code
validateCodeSwapped(state, valid) ==
    IF valid
    THEN [status |-> [success |-> [code    |-> OptString(state.bestSolution, "prefix"),
                                   imports |-> OptString(state.bestSolution, "imports"),
                                   prefix  |-> OptString(state.bestSolution, "code")]]]
    ELSE [status |-> [failure |-> [reason |-> "The code is not valid"]]]

validateCode(state, valid) ==
    LET code    == OptString(state.bestSolution, "code")
        imports == OptString(state.bestSolution, "imports")
        prefix  == OptString(state.bestSolution, "prefix")
    IN IF valid
       THEN [status |-> [success |-> [code |-> code, imports |-> imports, prefix |-> prefix]]]
       ELSE [status |-> [failure |-> [reason |-> "The code is not valid"]]]

\* state.status.failure?.reason
FailureReason(state) ==
    IF "failure" \in DOMAIN state.status
    THEN OptString(state.status.failure, "reason")
    ELSE "undefined"

\* variant: && in place of ||
retryRouterBoth(state) ==
    IF ~Truthy(FailureReason(state)) /\ state.iterations >= MaxIterations
    THEN END
    ELSE "call_model"

retryRouter(state) ==
    IF ~Truthy(FailureReason(state)) \/ state.iterations >= MaxIterations
    THEN END
    ELSE "call_model"

----------------------------------------------------------------------------
(* The graph *)

START == "__start__"
Nodes == {"generate_code", "generate_test_cases", "rank_solutions", "validate_code"}
\* variant: validate_code wired after generate_code in place of rank_solutions
EdgesEarlyValidate ==
    {<<START, "generate_code">>,
     <<"generate_code", "generate_test_cases">>,
     <<"generate_code", "rank_solutions">>,
     <<"generate_test_cases", "validate_code">>,
     <<"generate_code", "validate_code">>}

Edges ==
    {<<START, "generate_code">>,
     <<"generate_code", "generate_test_cases">>,
     <<"generate_code", "rank_solutions">>,
     <<"generate_test_cases", "validate_code">>,
     <<"rank_solutions", "validate_code">>}

\* destination map of the conditional edge of validate_code
pathMap == (END :> END) @@ ("generate_code" :> "generate_code")
BranchNodes == {"validate_code"}
\* nodes that call the completion service
GatewayNodes == {"generate_code", "generate_test_cases", "rank_solutions"}

NoError == [kind |-> "none"]
UNKNOWN == "unknown destination"

\* the conditional edge applied to the state its node leaves: the state read,
\* the router's value and the destination the map gives for it
Branch(view) ==
    LET r == retryRouter(view)
    IN [status |-> view.status, iterations |-> view.iterations, value |-> r,
        dest |-> IF r \in DOMAIN pathMap THEN pathMap[r] ELSE UNKNOWN]

\* where a node's return leads: its plain edges, or its conditional edge
Destinations(node, view) ==
    IF node \in BranchNodes
    THEN {Branch(view).dest} \ {END}
    ELSE {e[2] : e \in {d \in Edges : d[1] = node}}

\* node returns update: the last return of a superstep merges the superstep's
\* updates and schedules the successors; an unknown destination rejects the run
Complete(node, update) ==
    LET view  == Merge(State, update)
        dests == Destinations(node, view)
        ws    == Append(writes, [node |-> node, update |-> update, dests |-> dests])
        rest  == tasks \ {node}
        st    == ApplyWrites(State, ws)
        next  == UNION {w.dests : w \in Range(ws)}
    IN /\ route' = IF node \in BranchNodes THEN Branch(view) ELSE route
       /\ returned' = [returned EXCEPT ![node] = update]
       /\ IF UNKNOWN \in dests
          THEN /\ phase' = "error"
               /\ error' = [kind |-> "branch", node |-> node]
               /\ tasks' = {}
               /\ writes' = <<>>
               /\ UNCHANGED channels
          ELSE IF rest # {}
          THEN /\ tasks' = rest
               /\ writes' = ws
               /\ UNCHANGED <<channels, phase, error>>
          ELSE /\ messages' = st.messages
               /\ userQuery' = st.userQuery
               /\ status' = st.status
               /\ generation' = st.generation
               /\ bestSolution' = st.bestSolution
               /\ iterations' = st.iterations
               /\ reflections' = st.reflections
               /\ tasks' = next
               /\ writes' = <<>>
               /\ phase' = IF next = {} THEN "done" ELSE "running"
               /\ UNCHANGED error

----------------------------------------------------------------------------
(* main(): the input of compiledGraph.invoke merged into the channels *)

Query == "write a function to add two numbers"

Init ==
    /\ messages = <<HumanMessage(Query)>>
    /\ userQuery = Query
    /\ status = NULL
    /\ generation = NULL
    /\ bestSolution = NULL
    /\ iterations = iterationsReducer(0, 0)
    /\ reflections = <<>>
    /\ tasks = {e[2] : e \in {d \in Edges : d[1] = START}}
    /\ writes = <<>>
    /\ phase = "running"
    /\ error = NoError
    /\ route = NULL
    /\ verdicts = <<>>
    /\ genCount = 0
    /\ testCount = 0
    /\ rankCount = 0
    /\ rankPrompt = <<>>
    /\ returned = [n \in Nodes |-> NULL]

(* Steps of a run *)

GenerateCode ==
    /\ phase = "running"
    /\ "generate_code" \in tasks
    /\ \E result \in codeGenSchema : Complete("generate_code", generateCode(State, result))
    /\ genCount' = genCount + 1
    /\ UNCHANGED <<verdicts, testCount, rankCount, rankPrompt>>

GenerateTestCases ==
    /\ phase = "running"
    /\ "generate_test_cases" \in tasks
    /\ \E result \in testCaseSchema :
           Complete("generate_test_cases", generateTestCases(State, result))
    /\ testCount' = testCount + 1
    /\ UNCHANGED <<verdicts, genCount, rankCount, rankPrompt>>

RankSolutions ==
    /\ phase = "running"
    /\ "rank_solutions" \in tasks
    /\ \E result \in rankSchema : Complete("rank_solutions", rankSolutions(State, result))
    /\ rankPrompt' = rankSolutionsPrompt(State)
    /\ rankCount' = rankCount + 1
    /\ UNCHANGED <<verdicts, genCount, testCount>>

ValidatePass(valid) ==
    /\ phase = "running"
    /\ "validate_code" \in tasks
    /\ Complete("validate_code", validateCode(State, valid))
    /\ verdicts' = Append(verdicts, valid)
    /\ UNCHANGED <<genCount, testCount, rankCount, rankPrompt>>

\* validate_code as written
ValidateCode == ValidatePass(isValid)

\* validate_code with the test run of its pseudo code in place of the
\* hardcoded value: either branch of its if may be taken
ValidateCodePlugged == \E valid \in BOOLEAN : ValidatePass(valid)

\* variant: the failure is caught and recorded, the run goes on
GatewayFailsCaught ==
    /\ phase = "running"
    /\ error = NoError
    /\ \E node \in tasks \cap GatewayNodes :
           error' = [kind |-> "gateway", node |-> node]
    /\ UNCHANGED <<channels, tasks, writes, phase, route, history>>

\* a completion call of a running node fails: the error leaves invoke, the
\* updates of the superstep are dropped
GatewayFails ==
    /\ phase = "running"
    /\ \E node \in tasks \cap GatewayNodes :
           error' = [kind |-> "gateway", node |-> node]
    /\ phase' = "error"
    /\ tasks' = {}
    /\ writes' = <<>>
    /\ UNCHANGED <<channels, route, history>>

Next == GenerateCode \/ GenerateTestCases \/ RankSolutions \/ ValidateCode \/ GatewayFails

Spec == Init /\ [][Next]_vars

NextPlugged ==
    GenerateCode \/ GenerateTestCases \/ RankSolutions \/ ValidateCodePlugged \/ GatewayFails

SpecPlugged == Init /\ [][NextPlugged]_vars

----------------------------------------------------------------------------
(* retryRouter and the destination map on their own: every status the      *)
(* GraphState type admits, every iteration count up to one past the       *)
(* ceiling, and one step that takes the routing decision                   *)

RouterStatuses ==
    {[success |-> c] : c \in {c1, c2, c3}}
    \cup {[failure |-> [reason |-> r]] : r \in {"The code is not valid", ""}}
    \cup {[failure |-> [reason |-> r, code |-> c.code]] :
              r \in {"The code is not valid", ""}, c \in {c1, c2, c3}}

InitRouter ==
    /\ messages = <<HumanMessage(Query)>>
    /\ userQuery = Query
    /\ status \in RouterStatuses
    /\ generation = NULL
    /\ bestSolution = NULL
    /\ iterations \in 0..(MaxIterations + 1)
    /\ reflections = <<>>
    /\ tasks = {}
    /\ writes = <<>>
    /\ phase = "running"
    /\ error = NoError
    /\ route = NULL
    /\ verdicts = <<>>
    /\ genCount = 0
    /\ testCount = 0
    /\ rankCount = 0
    /\ rankPrompt = <<>>
    /\ returned = [n \in Nodes |-> NULL]

RouteStep ==
    /\ phase = "running"
    /\ tasks = {}
    /\ route' = Branch(State)
    /\ LET dests == Destinations("validate_code", State)
       IN IF UNKNOWN \in dests
          THEN /\ phase' = "error"
               /\ error' = [kind |-> "branch", node |-> "validate_code"]
               /\ tasks' = {}
          ELSE /\ tasks' = dests
               /\ phase' = IF dests = {} THEN "done" ELSE "running"
               /\ UNCHANGED error
    /\ UNCHANGED <<channels, writes, history>>

SpecRouter == InitRouter /\ [][RouteStep]_vars

----------------------------------------------------------------------------
(* Properties *)

HasFailure(s) == "failure" \in DOMAIN s
HasSuccess(s) == "success" \in DOMAIN s
AllFailed == \A i \in 1..Len(verdicts) : ~verdicts[i]

\* C1: at the routing decision after a validate_code pass, a status with a
\* failure and iterations below the ceiling leads to generate_code: the run
\* goes on (no DONE, no abort) with generate_code scheduled.
C1_FailureBelowCeilingRetries ==
    [][(Len(verdicts') = Len(verdicts) + 1
        /\ HasFailure(route'.status)
        /\ route'.iterations < MaxIterations)
       => (phase' = "running" /\ tasks' = {"generate_code"})]_vars

\* C2: a run in which validate_code failed on every pass and no completion
\* call failed has ended in DONE after exactly three generate_code passes,
\* with a failure in status and iterations = 3.
C2_AlwaysFailingRunExhaustsThreePasses ==
    (phase # "running" /\ AllFailed /\ error.kind # "gateway")
    => (/\ phase = "done"
        /\ genCount = MaxIterations
        /\ iterations = MaxIterations
        /\ HasFailure(status))

\* C3: iterations equals the number of generate_code executions so far, is at
\* most 3, and generate_code is only scheduled again with iterations < 3.
C3_IterationsCountGeneratorPasses ==
    /\ iterations = genCount
    /\ iterations <= MaxIterations
    /\ (("generate_code" \in tasks /\ genCount > 0) => iterations < MaxIterations)

C3_Witness == genCount = 1 /\ iterations = 1 /\ "validate_code" \in tasks

\* C4: at the routing decision, a status without a failure leads to DONE for
\* every value of iterations; generate_code is not scheduled.
C4_NoFailureGoesToDone ==
    [][(route' # route /\ ~HasFailure(status))
       => (route'.dest = END /\ phase' = "done" /\ tasks' = {})]_vars

C4_Witness ==
    /\ route # NULL
    /\ HasSuccess(route.status)
    /\ route.iterations = MaxIterations - 1
    /\ phase = "done"

\* C5: after a validate_code pass that reports success, status is exactly a
\* success whose code, imports and prefix are those of the bestSolution the
\* rank_solutions pass of the same iteration wrote; no failure is set.
C5_SuccessCopiesBestSolution ==
    (verdicts # <<>> /\ Last(verdicts))
    => (/\ rankCount = Len(verdicts)
        /\ bestSolution # NULL
        /\ status = [success |-> [code    |-> bestSolution.code,
                                  imports |-> bestSolution.imports,
                                  prefix  |-> bestSolution.prefix]]
        /\ ~HasFailure(status))

C5_Witness ==
    /\ verdicts # <<>>
    /\ Last(verdicts)
    /\ HasSuccess(status)
    /\ status.success = c2
    /\ bestSolution = c2

\* C6: with validate_code as written, generate_code never runs twice, the
\* router never asks for a retry, a run is only rejected by a failed
\* completion call, in a running run some node can always return (so a run
\* without a failed call goes on until DONE), and a run that is DONE made
\* exactly one pass of each node with iterations = 1.
C6_StubRunIsOnePass ==
    /\ genCount <= 1
    /\ (route # NULL => route.value = END)
    /\ (phase = "error" => error.kind = "gateway")
    /\ (phase = "running" =>
            ENABLED (GenerateCode \/ GenerateTestCases \/ RankSolutions \/ ValidateCode))
    /\ (phase = "done" =>
            /\ genCount = 1
            /\ testCount = 1
            /\ rankCount = 1
            /\ Len(verdicts) = 1
            /\ iterations = 1)

C6_Witness ==
    phase = "done" /\ genCount = 1 /\ Len(verdicts) = 1 /\ HasSuccess(status)

\* the pools the reducer can be given
Pools ==
    {NULL}
    \cup [solutions : SeqsUpTo({c1, c2}, MaxSolutions)]
    \cup [testCases : SeqsUpTo({t1}, MaxTestCases)]
    \cup [solutions : SeqsUpTo({c1, c2}, MaxSolutions),
          testCases : SeqsUpTo({t1}, MaxTestCases)]

\* C7: solutions and testCases only grow: across every step of a run the old
\* contents of each list are a prefix of the new ones (a null pool and an
\* absent list count as empty), and the reducer keeps the previous pool's
\* lists as prefixes for every pair of pools it can be given.
C7_PoolOnlyGrows ==
    [][/\ IsPrefix(OrEmpty(generation, "solutions"), OrEmpty(generation', "solutions"))
       /\ IsPrefix(OrEmpty(generation, "testCases"), OrEmpty(generation', "testCases"))
       /\ \A prev \in Pools, next \in Pools :
              LET merged == generationReducer(prev, next)
              IN /\ IsPrefix(OrEmpty(prev, "solutions"), OrEmpty(merged, "solutions"))
                 /\ IsPrefix(OrEmpty(prev, "testCases"), OrEmpty(merged, "testCases"))]_vars

C7_Witness ==
    /\ "solutions" \in DOMAIN generation
    /\ "testCases" \in DOMAIN generation
    /\ Len(generation.solutions) = MaxSolutions
    /\ Len(generation.testCases) = MaxTestCases

\* C8: once a rank_solutions pass is merged, bestSolution is one of the
\* solutions that pass was given in its prompt (stated for the passes that
\* were given at least one solution).
C8_BestSolutionIsFromPool ==
    (bestSolution # NULL /\ Len(rankPrompt) = 2 /\ rankPrompt[2] # <<>>)
    => bestSolution \in Range(rankPrompt[2])

\* C9: when the first generate_test_cases completion call fails, the run is
\* rejected with that error, testCases is empty, validate_code has not run,
\* and nothing runs afterwards: no DONE, no further generate_code pass.
C9_TestCaseGatewayFailureAborts ==
    /\ []((error.kind = "gateway" /\ error.node = "generate_test_cases" /\ testCount = 0)
          => (/\ phase = "error"
              /\ tasks = {}
              /\ OrEmpty(generation, "testCases") = <<>>
              /\ verdicts = <<>>
              /\ genCount = 1))
    /\ [][phase = "error" => (phase' = "error" /\ UNCHANGED <<genCount, verdicts>>)]_vars

C9_Witness ==
    /\ phase = "error"
    /\ error.kind = "gateway"
    /\ error.node = "generate_test_cases"
    /\ testCount = 0
    /\ rankCount = 1

\* C10: the status a failing validate_code pass yields has a failure with a
\* reason and with the code of the bestSolution that failed, and no success.
C10_FailureCarriesReasonAndCode ==
    (route # NULL /\ HasFailure(route.status))
    => (/\ "reason" \in DOMAIN route.status.failure
        /\ "code" \in DOMAIN route.status.failure
        /\ route.status.failure.code = OptString(bestSolution, "code")
        /\ ~HasSuccess(route.status))

\* a status is exactly the outcome `valid`
ReflectsOnly(s, valid) ==
    IF valid THEN HasSuccess(s) /\ ~HasFailure(s) ELSE HasFailure(s) /\ ~HasSuccess(s)

\* C11: the status a validate_code pass leaves holds exactly one of success
\* and failure, the one of that pass's outcome; the status channel of a run
\* that is DONE is that status; and merging any pass's update over any
\* earlier status (a success over a failure, a failure over a success) leaves
\* nothing of the earlier one.
C11_StatusReflectsLastPassOnly ==
    /\ (verdicts # <<>> =>
            /\ route # NULL
            /\ ReflectsOnly(route.status, Last(verdicts)))
    /\ (phase = "done" => status = route.status /\ ReflectsOnly(status, Last(verdicts)))
    /\ \A prev \in RouterStatuses, best \in {c1, c2, c3}, valid \in BOOLEAN :
           LET pass == validateCode([bestSolution |-> best], valid)
           IN ReflectsOnly(statusReducer(prev, pass.status), valid)

C11_Witness ==
    /\ verdicts # <<>>
    /\ ~Last(verdicts)
    /\ HasFailure(route.status)
    /\ returned["validate_code"] # NULL

IsSuffix(s, t) ==
    Len(s) <= Len(t) /\ \A i \in 1..Len(s) : s[i] = t[Len(t) - Len(s) + i]

\* C12: validate_code runs at most once per generate_code pass and exactly
\* once in a run that is DONE; whenever it is scheduled it is alone, both
\* generate_test_cases and rank_solutions of the same iteration have returned
\* and are merged, bestSolution is what that rank_solutions pass returned and
\* testCases ends with what that generate_test_cases pass returned.
C12_ValidatorAfterBothBranches ==
    /\ Len(verdicts) <= genCount
    /\ (phase = "done" => Len(verdicts) = genCount)
    /\ ("validate_code" \in tasks =>
            /\ tasks = {"validate_code"}
            /\ writes = <<>>
            /\ testCount = genCount
            /\ rankCount = genCount
            /\ Len(verdicts) + 1 = genCount
            /\ returned["rank_solutions"] # NULL
            /\ bestSolution = returned["rank_solutions"].bestSolution
            /\ returned["generate_test_cases"] # NULL
            /\ "testCases" \in DOMAIN generation
            /\ IsSuffix(returned["generate_test_cases"].generation.testCases,
                        generation.testCases))

C12_Witness ==
    /\ tasks = {"validate_code"}
    /\ bestSolution = c3
    /\ Len(generation.testCases) = MaxTestCases
    /\ Len(generation.solutions) = 1

\* C13: on the step that ends the superstep of generate_test_cases and
\* rank_solutions, the state validate_code will read is the merge of their
\* two updates in the order they returned, and equals the merge in the
\* opposite order, field by field.
C13_MergeOrderIrrelevant ==
    [][(Len(writes) = 1 /\ "validate_code" \in tasks' /\ "validate_code" \notin tasks)
       => LET first  == writes[1]
              other  == CHOOSE n \in {"generate_test_cases", "rank_solutions"} :
                            n # first.node
              second == [node |-> other, update |-> returned'[other]]
              merged == [messages |-> messages', userQuery |-> userQuery',
                         status |-> status', generation |-> generation',
                         bestSolution |-> bestSolution', iterations |-> iterations',
                         reflections |-> reflections']
          IN /\ merged = ApplyWrites(State, <<first, second>>)
             /\ merged = ApplyWrites(State, <<second, first>>)]_vars

C13_Witness ==
    /\ tasks = {"validate_code"}
    /\ Len(messages) = 3
    /\ bestSolution = c1
    /\ Len(generation.testCases) = 1
    /\ Len(generation.solutions) = MaxSolutions

\* the candidates of the generate_code passes logged in `log`, in pass order
RECURSIVE GeneratedBy(_)
GeneratedBy(log) ==
    IF log = <<>> THEN <<>>
    ELSE LET m == Head(log)
         IN IF m.role = "ai" /\ m.name = "code_generation"
            THEN m.content[2].solutions \o GeneratedBy(Tail(log))
            ELSE GeneratedBy(Tail(log))

\* C14: the candidate list of the k-th rank_solutions call is the
\* concatenation, in pass order, of the candidates of generate_code passes
\* 1..k, and it is not empty.
C14_RankerGetsAllCandidates ==
    (rankCount > 0 /\ rankCount = genCount)
    => (/\ rankPrompt = Stringify(GeneratedBy(messages))
        /\ GeneratedBy(messages) # <<>>)

\* C15: whatever validate_code reports at each pass, a run makes at most 3
\* generate_code passes, can take a step as long as it has not stopped, and
\* when it has stopped it is DONE or was rejected by a failed completion call.
C15_RunStopsDoneOrGatewayError ==
    /\ genCount <= MaxIterations
    /\ (phase = "running" => ENABLED NextPlugged)
    /\ (phase # "running" => (phase = "done" \/ error.kind = "gateway"))

\* C16: bestSolution is null until a rank_solutions pass has returned, and
\* validate_code is never scheduled, and has never run, with a null
\* bestSolution: what it copied into a success is a candidate's code.
C16_BestSolutionNullUntilRanked ==
    /\ (rankCount = 0 => bestSolution = NULL)
    /\ ("validate_code" \in tasks => bestSolution # NULL)
    /\ (verdicts # <<>> =>
            /\ bestSolution # NULL
            /\ (HasSuccess(returned["validate_code"].status) =>
                    returned["validate_code"].status.success.code # "undefined"))

C16_Witness ==
    /\ Len(verdicts) = 1
    /\ rankCount = 1
    /\ bestSolution = c1
    /\ returned["validate_code"].status.success.code = c1.code

\* C17: the log only grows by appending; a generate_code or
\* generate_test_cases return carries exactly one entry, a rank_solutions or
\* validate_code return none; once a superstep is merged the log holds the
\* user's message plus one entry per generate_code and generate_test_cases
\* pass, 1 + 2 x iterations entries in a run that is DONE.
C17_LogIsAppendOnly ==
    /\ [](/\ \A n \in {"generate_code", "generate_test_cases"} :
                 returned[n] # NULL => Len(returned[n].messages) = 1
          /\ \A n \in {"rank_solutions", "validate_code"} :
                 returned[n] # NULL => "messages" \notin DOMAIN returned[n]
          /\ ((writes = <<>> /\ phase # "error") =>
                  /\ messages[1] = HumanMessage(Query)
                  /\ Len(messages) = 1 + genCount + testCount)
          /\ (phase = "done" => Len(messages) = 1 + 2 * iterations))
    /\ [][IsPrefix(messages, messages')]_vars

C17_Witness ==
    /\ phase = "done"
    /\ iterations = 1
    /\ Len(messages) = 3
    /\ messages[2].name = "code_generation"
    /\ messages[3].name = "test_case_generation"

\* C18: every value retryRouter returns is a key of the destination map of
\* validate_code's conditional edge, so the routing step resolves to a node
\* of the graph or to the end marker.
C18_RouterValuesAreMapKeys ==
    route # NULL
    => (route.value \in DOMAIN pathMap /\ route.dest \in Nodes \cup {END})

\* the update `upd`, merged into the state its node read, leaves the
\* channels `keep` as they were
Keeps(upd, keep) == \A k \in keep : Merge(State, upd)[k] = State[k]
\* ... and leaves the list `key` of the pool as it was
KeepsList(upd, key) ==
    OrEmpty(Merge(State, upd).generation, key) = OrEmpty(generation, key)

\* C19: merged into the state it read, the update of a rank_solutions pass
\* leaves generation, iterations, status, messages and userQuery unchanged;
\* that of a validate_code pass changes nothing but status; that of a
\* generate_test_cases pass leaves solutions, iterations, bestSolution and
\* status unchanged; that of a generate_code pass leaves testCases,
\* bestSolution and status unchanged; and no step changes userQuery.
C19_NodesChangeOnlyTheirFields ==
    [][/\ userQuery' = userQuery
       /\ (rankCount' # rankCount =>
               Keeps(returned'["rank_solutions"],
                     {"generation", "iterations", "status", "messages", "userQuery"}))
       /\ (Len(verdicts') # Len(verdicts) =>
               /\ Keeps(returned'["validate_code"], DOMAIN State \ {"status"})
               /\ UNCHANGED <<messages, userQuery, generation, bestSolution,
                              iterations, reflections>>)
       /\ (testCount' # testCount =>
               /\ Keeps(returned'["generate_test_cases"],
                        {"iterations", "bestSolution", "status", "userQuery"})
               /\ KeepsList(returned'["generate_test_cases"], "solutions"))
       /\ (genCount' # genCount =>
               /\ Keeps(returned'["generate_code"], {"bestSolution", "status", "userQuery"})
               /\ KeepsList(returned'["generate_code"], "testCases")
               /\ UNCHANGED <<bestSolution, status, userQuery>>)]_vars

C19_Witness ==
    /\ phase = "done"
    /\ DOMAIN returned["rank_solutions"] = {"bestSolution"}
    /\ DOMAIN returned["validate_code"] = {"status"}
    /\ DOMAIN returned["generate_test_cases"] = {"generation", "messages"}
    /\ userQuery = Query

====
